---------------------------- MODULE Spec2Model ----------------------------
(***************************************************************************)
(* Model of the SecOps scan of crates/zed/src/zed/quick_action_bar.rs:     *)
(* the payload builder build_secops_payload, the orchestration function    *)
(* insert_secops_message and the click handler of the SecOps button.       *)
(*                                                                         *)
(* Text.  A Rust String / &str is valid UTF-8.  A text is modelled as a    *)
(* run-length encoded sequence of characters: a sequence of runs           *)
(* [ch |-> <<b1,..,bw>>, n |-> k], the UTF-8 encoding of one character     *)
(* repeated k times.  Texts are kept in normal form (no empty run, no two  *)
(* adjacent runs of the same character), so that equality of texts is      *)
(* equality of their bytes.  This keeps the limits of the program at their *)
(* real values (200 KiB and 1 MiB).                                        *)
(***************************************************************************)
EXTENDS Integers, Sequences, FiniteSets, TLC

VARIABLES
    contents,        \* text of the buffer of the active editor
    is_singleton,    \* MultiBuffer::is_singleton of that buffer
    built,           \* result of the last direct call of build_secops_payload
    agent_delegate,  \* <dyn AgentPanelDelegate>::try_global(cx).is_some()
    agent_panel,     \* workspace.panel::<AgentPanel>(cx).is_some()
    thread,          \* the active text thread editor and its message text
    panel_focused,   \* the AgentPanel has been brought to the foreground
    workspace_alive, \* the WeakEntity<Workspace> can still be upgraded
    toasts,          \* the notifications the workspace displays
    tasks,           \* number of spawned scan tasks that have not run yet
    spawned,         \* number of scan tasks spawned so far
    scan             \* record of the last scan that ran

vars == <<contents, is_singleton, built, agent_delegate, agent_panel,
          thread, panel_focused, workspace_alive, toasts, tasks, spawned,
          scan>>

-----------------------------------------------------------------------------
(* Bounds of the model *)

\* how far around the limits (and around 0) the content lengths are drawn
MaxSlack == 2
\* how many scan tasks may be spawned in one behaviour
MaxTasks == 2

-----------------------------------------------------------------------------
(* Texts *)

Run(ch, n) == [ch |-> ch, n |-> n]

\* concatenation of two texts in normal form (format!("{a}{b}")): the runs
\* that meet are merged when they are of the same character
Cat(s, t) ==
    IF s = <<>> THEN t
    ELSE IF t = <<>> THEN s
    ELSE IF s[Len(s)].ch = t[1].ch
         THEN SubSeq(s, 1, Len(s) - 1)
              \o <<Run(t[1].ch, s[Len(s)].n + t[1].n)>>
              \o Tail(t)
         ELSE s \o t

RECURSIVE Norm(_)
\* normal form of a sequence of runs
Norm(t) ==
    IF t = <<>> THEN <<>>
    ELSE IF Len(t) = 1 THEN (IF t[1].n = 0 THEN <<>> ELSE t)
    ELSE LET h == Len(t) \div 2
         IN  Cat(Norm(SubSeq(t, 1, h)), Norm(SubSeq(t, h + 1, Len(t))))

\* the text of an ASCII string literal given by its bytes
Str(bytes) == Norm([i \in 1..Len(bytes) |-> Run(<<bytes[i]>>, 1)])

RECURSIVE ByteLen(_)
\* str::len / as_bytes().len(): the number of bytes of a text
ByteLen(t) ==
    IF t = <<>> THEN 0
    ELSE IF Len(t) = 1 THEN Len(t[1].ch) * t[1].n
    ELSE LET h == Len(t) \div 2
         IN  ByteLen(SubSeq(t, 1, h)) + ByteLen(SubSeq(t, h + 1, Len(t)))

RECURSIVE Decimal(_)
\* Display of an unsigned integer ({} in format!): its decimal digits
Decimal(k) ==
    IF k < 10 THEN <<48 + k>> ELSE Append(Decimal(k \div 10), 48 + (k % 10))

\* U+FFFD REPLACEMENT CHARACTER, as UTF-8
REPLACEMENT == <<239, 191, 189>>

\* the range of the second byte of a UTF-8 sequence with lead byte b
SecondLo(b) == IF b = 224 THEN 160 ELSE IF b = 240 THEN 144 ELSE 128
SecondHi(b) == IF b = 237 THEN 159 ELSE IF b = 244 THEN 143 ELSE 191

\* the width announced by a lead byte, 0 when the byte cannot start a sequence
Utf8Width(b) ==
    IF b < 128 THEN 1
    ELSE IF b >= 194 /\ b <= 223 THEN 2
    ELSE IF b >= 224 /\ b <= 239 THEN 3
    ELSE IF b >= 240 /\ b <= 244 THEN 4
    ELSE 0

\* is byte i (i >= 2) of the sequence starting bytes a valid continuation
ContOk(bytes, i) ==
    IF i = 2 THEN bytes[2] >= SecondLo(bytes[1]) /\ bytes[2] <= SecondHi(bytes[1])
    ELSE bytes[i] >= 128 /\ bytes[i] <= 191

RECURSIVE ValidPrefix(_, _, _)
\* number of bytes, from byte 1, that form a prefix of a valid sequence of
\* width w, having already accepted i-1 bytes
ValidPrefix(bytes, w, i) ==
    IF i > w \/ i > Len(bytes) \/ ~ContOk(bytes, i) THEN i - 1
    ELSE ValidPrefix(bytes, w, i + 1)

LossyOneFFFDPerByte(bytes) ==
    Norm([i \in 1..Len(bytes) |-> Run(REPLACEMENT, 1)])

RECURSIVE LossyDecode(_)
\* String::from_utf8_lossy on raw bytes: valid sequences are kept, every
\* maximal invalid or incomplete sequence becomes one U+FFFD
LossyDecode(bytes) ==
    IF bytes = <<>> THEN <<>>
    ELSE LET w == Utf8Width(bytes[1])
             k == IF w = 0 THEN 1 ELSE ValidPrefix(bytes, w, 2)
         IN  IF w # 0 /\ k = w
             THEN Cat(<<Run(SubSeq(bytes, 1, w), 1)>>,
                      LossyDecode(SubSeq(bytes, w + 1, Len(bytes))))
             ELSE Cat(<<Run(REPLACEMENT, 1)>>,
                      LossyDecode(SubSeq(bytes, k + 1, Len(bytes))))

\* &t.as_bytes()[..k] for k <= ByteLen(t): the characters that lie wholly in
\* the first k bytes (whole) and the bytes of the character cut by the end
\* of the slice (cut)
TakeBytes(t, k) ==
    LET j == CHOOSE i \in 0..Len(t) :
                 /\ ByteLen(SubSeq(t, 1, i)) <= k
                 /\ i < Len(t) => ByteLen(SubSeq(t, 1, i + 1)) > k
        rem == k - ByteLen(SubSeq(t, 1, j))
    IN  IF j = Len(t) THEN [whole |-> t, cut |-> <<>>]
        ELSE LET r == t[j + 1]
                 w == Len(r.ch)
             IN  [whole |-> Cat(SubSeq(t, 1, j), Norm(<<Run(r.ch, rem \div w)>>)),
                  cut |-> SubSeq(r.ch, 1, rem % w)]

\* String::from_utf8_lossy(slice).into_owned() of a slice of a valid text:
\* the whole characters decode to themselves, the cut bytes go through the
\* decoder
from_utf8_lossy(slice) == Cat(slice.whole, LossyDecode(slice.cut))

-----------------------------------------------------------------------------
(* Constants of the program *)

SECOPS_SYSTEM_PROMPT ==
    Str(<<89, 111, 117, 32, 97, 114, 101, 32, 97, 32, 115, 101, 99, 117, 114,
          105, 116, 121, 32, 114, 101, 118, 105, 101, 119, 101, 114, 46, 32,
          73, 100, 101, 110, 116, 105, 102, 121, 32, 118, 117, 108, 110, 101,
          114, 97, 98, 105, 108, 105, 116, 105, 101, 115, 44, 32, 105, 110,
          115, 101, 99, 117, 114, 101, 32, 112, 97, 116, 116, 101, 114, 110,
          115, 44, 32, 115, 101, 99, 114, 101, 116, 115, 44, 32, 97, 110, 100,
          32, 114, 101, 109, 101, 100, 105, 97, 116, 105, 111, 110, 32, 115,
          116, 101, 112, 115, 46, 32, 75, 101, 101, 112, 32, 114, 101, 115,
          112, 111, 110, 115, 101, 115, 32, 99, 111, 110, 99, 105, 115, 101,
          32, 97, 110, 100, 32, 97, 99, 116, 105, 111, 110, 97, 98, 108, 101,
          46>>)
SECOPS_WARN_BYTES == 200 * 1024
SECOPS_HARD_LIMIT_BYTES == 1 * 1024 * 1024

\* "\n\n"
BlankLine == Str(<<10, 10>>)

\* "[Content truncated to {SECOPS_WARN_BYTES} bytes]"
TruncationNotice ==
    Str(<<91, 67, 111, 110, 116, 101, 110, 116, 32, 116, 114, 117, 110, 99,
          97, 116, 101, 100, 32, 116, 111, 32>>
        \o Decimal(SECOPS_WARN_BYTES)
        \o <<32, 98, 121, 116, 101, 115, 93>>)

-----------------------------------------------------------------------------
(* Payload builder *)

SecOpsPayload(payload, truncated, original_bytes) ==
    [tag |-> "Ok", payload |-> payload, truncated |-> truncated,
     original_bytes |-> original_bytes]

TooLarge(bytes) == [tag |-> "Err", variant |-> "TooLarge", bytes |-> bytes]

\* build_secops_payload with >= in place of > in both comparisons
build_secops_payload_ge(c) ==
    LET byte_len == ByteLen(c) IN
    IF byte_len >= SECOPS_HARD_LIMIT_BYTES THEN TooLarge(byte_len)
    ELSE IF byte_len >= SECOPS_WARN_BYTES
    THEN LET truncated_text ==
                 from_utf8_lossy(TakeBytes(c, SECOPS_WARN_BYTES))
             payload ==
                 Cat(SECOPS_SYSTEM_PROMPT,
                     Cat(BlankLine,
                         Cat(truncated_text, Cat(BlankLine, TruncationNotice))))
         IN  SecOpsPayload(payload, TRUE, byte_len)
    ELSE SecOpsPayload(Cat(SECOPS_SYSTEM_PROMPT, Cat(BlankLine, c)),
                       FALSE, byte_len)

\* build_secops_payload that drops the cut bytes instead of decoding them
\* and reports the truncated length
build_secops_payload_strict(c) ==
    LET byte_len == ByteLen(c) IN
    IF byte_len > SECOPS_HARD_LIMIT_BYTES THEN TooLarge(byte_len)
    ELSE IF byte_len > SECOPS_WARN_BYTES
    THEN LET truncated_text == TakeBytes(c, SECOPS_WARN_BYTES).whole
             payload ==
                 Cat(SECOPS_SYSTEM_PROMPT,
                     Cat(BlankLine,
                         Cat(truncated_text, Cat(BlankLine, TruncationNotice))))
         IN  SecOpsPayload(payload, TRUE, ByteLen(truncated_text))
    ELSE SecOpsPayload(Cat(SECOPS_SYSTEM_PROMPT, Cat(BlankLine, c)),
                       FALSE, byte_len)

\* build_secops_payload that puts the notice in front of the truncated text
build_secops_payload_notice_first(c) ==
    LET byte_len == ByteLen(c) IN
    IF byte_len > SECOPS_HARD_LIMIT_BYTES THEN TooLarge(byte_len)
    ELSE IF byte_len > SECOPS_WARN_BYTES
    THEN LET truncated_text ==
                 from_utf8_lossy(TakeBytes(c, SECOPS_WARN_BYTES))
             payload ==
                 Cat(SECOPS_SYSTEM_PROMPT,
                     Cat(BlankLine,
                         Cat(TruncationNotice, Cat(BlankLine, truncated_text))))
         IN  SecOpsPayload(payload, TRUE, byte_len)
    ELSE SecOpsPayload(Cat(SECOPS_SYSTEM_PROMPT, Cat(BlankLine, c)),
                       FALSE, byte_len)

\* build_secops_payload that adds the notice to every payload
build_secops_payload_notice_always(c) ==
    LET byte_len == ByteLen(c) IN
    IF byte_len > SECOPS_HARD_LIMIT_BYTES THEN TooLarge(byte_len)
    ELSE LET truncated_text ==
                 from_utf8_lossy(TakeBytes(c, SECOPS_WARN_BYTES))
             payload ==
                 Cat(SECOPS_SYSTEM_PROMPT,
                     Cat(BlankLine,
                         Cat(truncated_text,
                             Cat(BlankLine,
                                 Cat(TruncationNotice,
                                     IF byte_len > SECOPS_WARN_BYTES
                                     THEN Cat(BlankLine, TruncationNotice)
                                     ELSE <<>>)))))
         IN  SecOpsPayload(payload, byte_len > SECOPS_WARN_BYTES, byte_len)

build_secops_payload(c) ==
    LET byte_len == ByteLen(c) IN
    IF byte_len > SECOPS_HARD_LIMIT_BYTES THEN TooLarge(byte_len)
    ELSE IF byte_len > SECOPS_WARN_BYTES
    THEN LET truncated_text ==
                 from_utf8_lossy(TakeBytes(c, SECOPS_WARN_BYTES))
             payload ==
                 Cat(SECOPS_SYSTEM_PROMPT,
                     Cat(BlankLine,
                         Cat(truncated_text, Cat(BlankLine, TruncationNotice))))
         IN  SecOpsPayload(payload, TRUE, byte_len)
    ELSE SecOpsPayload(Cat(SECOPS_SYSTEM_PROMPT, Cat(BlankLine, c)),
                       FALSE, byte_len)

-----------------------------------------------------------------------------
(* Errors of the scan and their messages *)

AgentUnavailable == [tag |-> "Err", variant |-> "AgentUnavailable"]
NoAgentThread == [tag |-> "Err", variant |-> "NoAgentThread"]
UnsupportedBuffer == [tag |-> "Err", variant |-> "UnsupportedBuffer"]

\* message whose NoAgentThread arm repeats the sentence of AgentUnavailable
message_repeated(err) ==
    IF err.variant = "AgentUnavailable" THEN
        \* "Open the Agent panel to use SecOps Scan"
        Str(<<79, 112, 101, 110, 32, 116, 104, 101, 32, 65, 103, 101, 110,
              116, 32, 112, 97, 110, 101, 108, 32, 116, 111, 32, 117, 115,
              101, 32, 83, 101, 99, 79, 112, 115, 32, 83, 99, 97, 110>>)
    ELSE IF err.variant = "NoAgentThread" THEN
        \* "Open the Agent panel to use SecOps Scan"
        Str(<<79, 112, 101, 110, 32, 116, 104, 101, 32, 65, 103, 101, 110,
              116, 32, 112, 97, 110, 101, 108, 32, 116, 111, 32, 117, 115,
              101, 32, 83, 101, 99, 79, 112, 115, 32, 83, 99, 97, 110>>)
    ELSE IF err.variant = "UnsupportedBuffer" THEN
        \* "SecOps Scan works only for file-backed text buffers"
        Str(<<83, 101, 99, 79, 112, 115, 32, 83, 99, 97, 110, 32, 119, 111,
              114, 107, 115, 32, 111, 110, 108, 121, 32, 102, 111, 114, 32,
              102, 105, 108, 101, 45, 98, 97, 99, 107, 101, 100, 32, 116,
              101, 120, 116, 32, 98, 117, 102, 102, 101, 114, 115>>)
    ELSE
        \* "File too large for SecOps Scan ({} bytes > {} bytes limit)"
        Str(<<70, 105, 108, 101, 32, 116, 111, 111, 32, 108, 97, 114, 103,
              101, 32, 102, 111, 114, 32, 83, 101, 99, 79, 112, 115, 32, 83,
              99, 97, 110, 32, 40>>
            \o Decimal(err.bytes)
            \o <<32, 98, 121, 116, 101, 115, 32, 62, 32>>
            \o Decimal(SECOPS_HARD_LIMIT_BYTES)
            \o <<32, 98, 121, 116, 101, 115, 32, 108, 105, 109, 105, 116,
                 41>>)

\* SecOpsScanError::message
message(err) ==
    IF err.variant = "AgentUnavailable" THEN
        \* "Open the Agent panel to use SecOps Scan"
        Str(<<79, 112, 101, 110, 32, 116, 104, 101, 32, 65, 103, 101, 110,
              116, 32, 112, 97, 110, 101, 108, 32, 116, 111, 32, 117, 115,
              101, 32, 83, 101, 99, 79, 112, 115, 32, 83, 99, 97, 110>>)
    ELSE IF err.variant = "NoAgentThread" THEN
        \* "Create or select an agent thread to use SecOps Scan"
        Str(<<67, 114, 101, 97, 116, 101, 32, 111, 114, 32, 115, 101, 108,
              101, 99, 116, 32, 97, 110, 32, 97, 103, 101, 110, 116, 32, 116,
              104, 114, 101, 97, 100, 32, 116, 111, 32, 117, 115, 101, 32,
              83, 101, 99, 79, 112, 115, 32, 83, 99, 97, 110>>)
    ELSE IF err.variant = "UnsupportedBuffer" THEN
        \* "SecOps Scan works only for file-backed text buffers"
        Str(<<83, 101, 99, 79, 112, 115, 32, 83, 99, 97, 110, 32, 119, 111,
              114, 107, 115, 32, 111, 110, 108, 121, 32, 102, 111, 114, 32,
              102, 105, 108, 101, 45, 98, 97, 99, 107, 101, 100, 32, 116,
              101, 120, 116, 32, 98, 117, 102, 102, 101, 114, 115>>)
    ELSE
        \* "File too large for SecOps Scan ({} bytes > {} bytes limit)"
        Str(<<70, 105, 108, 101, 32, 116, 111, 111, 32, 108, 97, 114, 103,
              101, 32, 102, 111, 114, 32, 83, 101, 99, 79, 112, 115, 32, 83,
              99, 97, 110, 32, 40>>
            \o Decimal(err.bytes)
            \o <<32, 98, 121, 116, 101, 115, 32, 62, 32>>
            \o Decimal(SECOPS_HARD_LIMIT_BYTES)
            \o <<32, 98, 121, 116, 101, 115, 32, 108, 105, 109, 105, 116,
                 41>>)

-----------------------------------------------------------------------------
(* Scan orchestration *)

NoThread == [active |-> FALSE, text |-> <<>>]
Thread(text) == [active |-> TRUE, text |-> text]

\* AgentPanel::new_text_thread: created tells whether the panel ends up with
\* an active text thread editor (the panel decides, not this file)
new_text_thread(created) == IF created THEN Thread(<<>>) ELSE NoThread

\* InsertAtEnd that inserts the payload at two cursors
InsertAtEndTwice(text, payload) ==
    Cat(text, Cat(IF text # <<>> THEN BlankLine ELSE <<>>, Cat(payload, payload)))

\* InsertAtEnd that inserts the blank line into an empty message too
InsertAtEndAlwaysSeparator(text, payload) ==
    Cat(text, Cat(BlankLine, payload))

\* InsertAtEnd without move_to_end: the cursor is still at the start
InsertAtCursor(text, payload) ==
    Cat(IF text # <<>> THEN BlankLine ELSE <<>>, Cat(payload, text))

\* the closure of thread_editor.editor().update: move_to_end, a blank line
\* when the message is not empty, then the payload
InsertAtEnd(text, payload) ==
    Cat(text, Cat(IF text # <<>> THEN BlankLine ELSE <<>>, payload))

\* what a run of insert_secops_message leaves behind
Outcome(result, calls, th, focused) ==
    [result |-> result, calls |-> calls, thread |-> th,
     panel_focused |-> focused]

\* insert_secops_message that looks the delegate up before it checks the
\* buffer
insert_secops_message_delegate_first(c, singleton, delegate, panel, th, focused, created) ==
    LET calls1 == <<"try_global">> IN
    IF ~delegate THEN Outcome(AgentUnavailable, calls1, th, focused)
    ELSE
    LET calls2 == Append(calls1, "is_singleton") IN
    IF ~singleton THEN Outcome(UnsupportedBuffer, calls2, th, focused)
    ELSE
    LET calls3 == calls2 \o <<"snapshot", "build_secops_payload">>
        payload == build_secops_payload(c)
    IN
    IF payload.tag = "Err"
    THEN Outcome(TooLarge(payload.bytes), calls3, th, focused)
    ELSE
    LET calls4 == calls3 \o <<"panel">>
                  \o (IF panel THEN <<"focus_panel">> ELSE <<>>)
        focused4 == focused \/ panel
        calls5 == Append(calls4, "active_text_thread_editor")
        calls6 == IF ~th.active
                  THEN calls5 \o <<"panel">>
                       \o (IF panel THEN <<"new_text_thread">> ELSE <<>>)
                  ELSE calls5
        th6 == IF ~th.active /\ panel THEN new_text_thread(created) ELSE th
        calls7 == Append(calls6, "active_text_thread_editor")
    IN
    IF ~th6.active THEN Outcome(NoAgentThread, calls7, th6, focused4)
    ELSE
    LET calls8 == calls7 \o <<"snapshot_message", "move_to_end">>
                  \o (IF th6.text # <<>> THEN <<"insert">> ELSE <<>>)
                  \o <<"insert", "focus_panel">>
    IN  Outcome(payload, calls8, Thread(InsertAtEnd(th6.text, payload.payload)),
                focused4 \/ panel)

\* insert_secops_message that focuses the panel before it looks the delegate
\* up
insert_secops_message_focus_first(c, singleton, delegate, panel, th, focused, created) ==
    LET calls1 == <<"is_singleton">> IN
    IF ~singleton THEN Outcome(UnsupportedBuffer, calls1, th, focused)
    ELSE
    LET calls2 == calls1 \o <<"snapshot", "build_secops_payload">>
        payload == build_secops_payload(c)
    IN
    IF payload.tag = "Err"
    THEN Outcome(TooLarge(payload.bytes), calls2, th, focused)
    ELSE
    LET calls3 == calls2 \o <<"panel">>
                  \o (IF panel THEN <<"focus_panel">> ELSE <<>>)
        focused4 == focused \/ panel
        calls4 == Append(calls3, "try_global")
    IN
    IF ~delegate THEN Outcome(AgentUnavailable, calls4, th, focused4)
    ELSE
    LET
        calls5 == Append(calls4, "active_text_thread_editor")
        calls6 == IF ~th.active
                  THEN calls5 \o <<"panel">>
                       \o (IF panel THEN <<"new_text_thread">> ELSE <<>>)
                  ELSE calls5
        th6 == IF ~th.active /\ panel THEN new_text_thread(created) ELSE th
        calls7 == Append(calls6, "active_text_thread_editor")
    IN
    IF ~th6.active THEN Outcome(NoAgentThread, calls7, th6, focused4)
    ELSE
    LET calls8 == calls7 \o <<"snapshot_message", "move_to_end">>
                  \o (IF th6.text # <<>> THEN <<"insert">> ELSE <<>>)
                  \o <<"insert", "focus_panel">>
    IN  Outcome(payload, calls8, Thread(InsertAtEnd(th6.text, payload.payload)),
                focused4 \/ panel)

\* insert_secops_message that asks for a new thread a second time
insert_secops_message_retry(c, singleton, delegate, panel, th, focused, created) ==
    LET calls1 == <<"is_singleton">> IN
    IF ~singleton THEN Outcome(UnsupportedBuffer, calls1, th, focused)
    ELSE
    LET calls2 == calls1 \o <<"snapshot", "build_secops_payload">>
        payload == build_secops_payload(c)
    IN
    IF payload.tag = "Err"
    THEN Outcome(TooLarge(payload.bytes), calls2, th, focused)
    ELSE
    LET calls3 == Append(calls2, "try_global") IN
    IF ~delegate THEN Outcome(AgentUnavailable, calls3, th, focused)
    ELSE
    LET calls4 == calls3 \o <<"panel">>
                  \o (IF panel THEN <<"focus_panel">> ELSE <<>>)
        focused4 == focused \/ panel
        calls5 == Append(calls4, "active_text_thread_editor")
        calls6 == IF ~th.active
                  THEN calls5 \o <<"panel">>
                       \o (IF panel
                           THEN <<"new_text_thread", "new_text_thread">>
                           ELSE <<>>)
                  ELSE calls5
        th6 == IF ~th.active /\ panel THEN new_text_thread(created) ELSE th
        calls7 == Append(calls6, "active_text_thread_editor")
    IN
    IF ~th6.active THEN Outcome(NoAgentThread, calls7, th6, focused4)
    ELSE
    LET calls8 == calls7 \o <<"snapshot_message", "move_to_end">>
                  \o (IF th6.text # <<>> THEN <<"insert">> ELSE <<>>)
                  \o <<"insert", "focus_panel">>
    IN  Outcome(payload, calls8, Thread(InsertAtEnd(th6.text, payload.payload)),
                focused4 \/ panel)

\* insert_secops_message that asks the panel for a new thread even when a
\* thread is active
insert_secops_message_always_new(c, singleton, delegate, panel, th, focused, created) ==
    LET calls1 == <<"is_singleton">> IN
    IF ~singleton THEN Outcome(UnsupportedBuffer, calls1, th, focused)
    ELSE
    LET calls2 == calls1 \o <<"snapshot", "build_secops_payload">>
        payload == build_secops_payload(c)
    IN
    IF payload.tag = "Err"
    THEN Outcome(TooLarge(payload.bytes), calls2, th, focused)
    ELSE
    LET calls3 == Append(calls2, "try_global") IN
    IF ~delegate THEN Outcome(AgentUnavailable, calls3, th, focused)
    ELSE
    LET calls4 == calls3 \o <<"panel">>
                  \o (IF panel THEN <<"focus_panel">> ELSE <<>>)
        focused4 == focused \/ panel
        calls5 == Append(calls4, "active_text_thread_editor")
        calls6 == calls5 \o <<"panel">>
                  \o (IF panel THEN <<"new_text_thread">> ELSE <<>>)
        th6 == IF panel THEN new_text_thread(created) ELSE th
        calls7 == Append(calls6, "active_text_thread_editor")
    IN
    IF ~th6.active THEN Outcome(NoAgentThread, calls7, th6, focused4)
    ELSE
    LET calls8 == calls7 \o <<"snapshot_message", "move_to_end">>
                  \o (IF th6.text # <<>> THEN <<"insert">> ELSE <<>>)
                  \o <<"insert", "focus_panel">>
    IN  Outcome(payload, calls8, Thread(InsertAtEnd(th6.text, payload.payload)),
                focused4 \/ panel)

\* insert_secops_message that asks for a new thread and focuses the panel
\* without looking whether the workspace has the panel
insert_secops_message_unguarded(c, singleton, delegate, panel, th, focused, created) ==
    LET calls1 == <<"is_singleton">> IN
    IF ~singleton THEN Outcome(UnsupportedBuffer, calls1, th, focused)
    ELSE
    LET calls2 == calls1 \o <<"snapshot", "build_secops_payload">>
        payload == build_secops_payload(c)
    IN
    IF payload.tag = "Err"
    THEN Outcome(TooLarge(payload.bytes), calls2, th, focused)
    ELSE
    LET calls3 == Append(calls2, "try_global") IN
    IF ~delegate THEN Outcome(AgentUnavailable, calls3, th, focused)
    ELSE
    LET calls4 == calls3 \o <<"focus_panel">>
        focused4 == TRUE
        calls5 == Append(calls4, "active_text_thread_editor")
        calls6 == IF ~th.active
                  THEN calls5 \o <<"new_text_thread">>
                  ELSE calls5
        th6 == IF ~th.active THEN new_text_thread(created) ELSE th
        calls7 == Append(calls6, "active_text_thread_editor")
    IN
    IF ~th6.active THEN Outcome(NoAgentThread, calls7, th6, focused4)
    ELSE
    LET calls8 == calls7 \o <<"snapshot_message", "move_to_end">>
                  \o (IF th6.text # <<>> THEN <<"insert">> ELSE <<>>)
                  \o <<"insert", "focus_panel">>
    IN  Outcome(payload, calls8, Thread(InsertAtEnd(th6.text, payload.payload)),
                focused4 \/ panel)

\* insert_secops_message; created is the answer of the AgentPanel to a
\* new_text_thread request.  calls lists, in order, the calls the function
\* makes on the buffer, the builder, the delegate, the panel and the thread.
insert_secops_message(c, singleton, delegate, panel, th, focused, created) ==
    LET calls1 == <<"is_singleton">> IN
    IF ~singleton THEN Outcome(UnsupportedBuffer, calls1, th, focused)
    ELSE
    LET calls2 == calls1 \o <<"snapshot", "build_secops_payload">>
        payload == build_secops_payload(c)
    IN
    IF payload.tag = "Err"
    THEN Outcome(TooLarge(payload.bytes), calls2, th, focused)
    ELSE
    LET calls3 == Append(calls2, "try_global") IN
    IF ~delegate THEN Outcome(AgentUnavailable, calls3, th, focused)
    ELSE
    LET calls4 == calls3 \o <<"panel">>
                  \o (IF panel THEN <<"focus_panel">> ELSE <<>>)
        focused4 == focused \/ panel
        calls5 == Append(calls4, "active_text_thread_editor")
        calls6 == IF ~th.active
                  THEN calls5 \o <<"panel">>
                       \o (IF panel THEN <<"new_text_thread">> ELSE <<>>)
                  ELSE calls5
        th6 == IF ~th.active /\ panel THEN new_text_thread(created) ELSE th
        calls7 == Append(calls6, "active_text_thread_editor")
    IN
    IF ~th6.active THEN Outcome(NoAgentThread, calls7, th6, focused4)
    ELSE
    LET calls8 == calls7 \o <<"snapshot_message", "move_to_end">>
                  \o (IF th6.text # <<>> THEN <<"insert">> ELSE <<>>)
                  \o <<"insert", "focus_panel">>
    IN  Outcome(payload, calls8, Thread(InsertAtEnd(th6.text, payload.payload)),
                focused4 \/ panel)

-----------------------------------------------------------------------------
(* Notifications *)

\* NotificationId::unique::<SecOpsScan>()
toast_id == "SecOpsScan"

Toast(id, msg) == [id |-> id, msg |-> msg, autohide |-> FALSE]
autohide(toast) == [toast EXCEPT !.autohide = TRUE]

\* Workspace::show_toast: a toast replaces the displayed one of the same id
show_toast(shown, toast) ==
    Append(SelectSeq(shown, LAMBDA t : t.id # toast.id), toast)

\* ResultToast that gives the error toasts an identifier of their own
ResultToastErrorId(result) ==
    IF result.tag = "Ok"
    THEN IF result.truncated
         THEN \* "SecOps Scan inserted (truncated to {} KB)"
              autohide(Toast(toast_id,
                  Str(<<83, 101, 99, 79, 112, 115, 32, 83, 99, 97, 110, 32,
                        105, 110, 115, 101, 114, 116, 101, 100, 32, 40, 116,
                        114, 117, 110, 99, 97, 116, 101, 100, 32, 116, 111,
                        32>>
                      \o Decimal(SECOPS_WARN_BYTES \div 1024)
                      \o <<32, 75, 66, 41>>)))
         ELSE \* "SecOps Scan inserted into chat composer"
              autohide(Toast(toast_id,
                  Str(<<83, 101, 99, 79, 112, 115, 32, 83, 99, 97, 110, 32,
                        105, 110, 115, 101, 114, 116, 101, 100, 32, 105, 110,
                        116, 111, 32, 99, 104, 97, 116, 32, 99, 111, 109,
                        112, 111, 115, 101, 114>>)))
    ELSE autohide(Toast("SecOpsScanError", message(result)))

\* the toast the click handler shows for the result of a scan
ResultToast(result) ==
    IF result.tag = "Ok"
    THEN IF result.truncated
         THEN \* "SecOps Scan inserted (truncated to {} KB)"
              autohide(Toast(toast_id,
                  Str(<<83, 101, 99, 79, 112, 115, 32, 83, 99, 97, 110, 32,
                        105, 110, 115, 101, 114, 116, 101, 100, 32, 40, 116,
                        114, 117, 110, 99, 97, 116, 101, 100, 32, 116, 111,
                        32>>
                      \o Decimal(SECOPS_WARN_BYTES \div 1024)
                      \o <<32, 75, 66, 41>>)))
         ELSE \* "SecOps Scan inserted into chat composer"
              autohide(Toast(toast_id,
                  Str(<<83, 101, 99, 79, 112, 115, 32, 83, 99, 97, 110, 32,
                        105, 110, 115, 101, 114, 116, 101, 100, 32, 105, 110,
                        116, 111, 32, 99, 104, 97, 116, 32, 99, 111, 109,
                        112, 111, 115, 101, 114>>)))
    ELSE autohide(Toast(toast_id, message(result)))

-----------------------------------------------------------------------------
(* Inputs *)

\* the character 'a'
LetterA == <<97>>
\* "safe content"
SafeContent ==
    Str(<<115, 97, 102, 101, 32, 99, 111, 110, 116, 101, 110, 116>>)

\* the text pieces placed inside a content: nothing, one character of 2, 3
\* and 4 bytes (U+00E9, U+20AC, U+1F600), the test's text, the notice itself
Probes ==
    { <<>>,
      <<Run(<<195, 169>>, 1)>>,
      <<Run(<<226, 130, 172>>, 1)>>,
      <<Run(<<240, 159, 152, 128>>, 1)>>,
      SafeContent,
      TruncationNotice }

\* a content of n bytes: k letters, the probe, then letters up to n bytes
Content(k, probe, n) ==
    Cat(Norm(<<Run(LetterA, k)>>),
        Cat(probe, Norm(<<Run(LetterA, n - k - ByteLen(probe))>>)))

\* byte lengths around 0, the soft limit and the hard limit
Lens ==
    (0..MaxSlack) \cup {12, SECOPS_WARN_BYTES + 10}
    \cup ((SECOPS_WARN_BYTES - MaxSlack)..(SECOPS_WARN_BYTES + MaxSlack))
    \cup ((SECOPS_HARD_LIMIT_BYTES - MaxSlack)..(SECOPS_HARD_LIMIT_BYTES + MaxSlack))

\* byte offsets at which the probe starts
Starts == {0} \cup ((SECOPS_WARN_BYTES - MaxSlack - 1)..SECOPS_WARN_BYTES)

\* the contents the builder is called with
Inputs ==
    { Content(x[1], x[2], x[3]) :
        x \in { y \in Starts \X Probes \X Lens : y[1] + ByteLen(y[2]) <= y[3] } }

\* the buffers that are scanned
ScanInputs ==
    { <<>>,
      SafeContent,
      Content(0, <<>>, SECOPS_WARN_BYTES + 10),
      Content(SECOPS_WARN_BYTES - 1, <<Run(<<195, 169>>, 1)>>,
              SECOPS_WARN_BYTES + MaxSlack),
      Content(0, TruncationNotice, SECOPS_HARD_LIMIT_BYTES) }
    \cup { Content(0, <<>>, SECOPS_HARD_LIMIT_BYTES + i) : i \in 1..MaxSlack }

\* the message texts of a thread that exists before the first scan
Drafts == { <<>>, Str(<<104, 105>>) }

-----------------------------------------------------------------------------
(* The builder called on its own, as the unit tests call it *)

NotCalled == [tag |-> "None"]
NotRun == [tag |-> "None"]

BuildInit ==
    /\ contents \in Inputs
    /\ built = NotCalled
    /\ is_singleton = TRUE
    /\ agent_delegate = FALSE
    /\ agent_panel = FALSE
    /\ thread = NoThread
    /\ panel_focused = FALSE
    /\ workspace_alive = TRUE
    /\ toasts = <<>>
    /\ tasks = 0
    /\ spawned = 0
    /\ scan = NotRun

\* let payload = build_secops_payload(contents)
BuildPayload ==
    /\ built' = build_secops_payload(contents)
    /\ UNCHANGED <<contents, is_singleton, agent_delegate, agent_panel, thread,
                   panel_focused, workspace_alive, toasts, tasks, spawned,
                   scan>>

BuildNext == BuildPayload

BuildSpec == BuildInit /\ [][BuildNext]_vars

-----------------------------------------------------------------------------
(* The SecOps button *)

Init ==
    /\ contents \in ScanInputs
    /\ is_singleton \in BOOLEAN
    /\ built = NotCalled
    /\ agent_delegate \in BOOLEAN
    /\ agent_panel \in BOOLEAN
    /\ thread \in {NoThread} \cup
                  { Thread(d) : d \in IF agent_delegate /\ agent_panel
                                      THEN Drafts ELSE {} }
    /\ panel_focused = FALSE
    /\ workspace_alive = TRUE
    /\ toasts = <<>>
    /\ tasks = 0
    /\ spawned = 0
    /\ scan = NotRun

\* on_click of the SecOps button: workspace.update spawns the scan task
ClickSecOpsScan ==
    /\ workspace_alive
    /\ spawned < MaxTasks
    /\ tasks' = tasks + 1
    /\ spawned' = spawned + 1
    /\ UNCHANGED <<contents, is_singleton, built, agent_delegate, agent_panel,
                   thread, panel_focused, workspace_alive, toasts, scan>>

\* ShownToasts of a handler whose truncated arm falls through to the other
ShownToastsFallThrough(result) ==
    IF result.tag = "Ok" /\ result.truncated
    THEN <<ResultToast(result),
           ResultToast([result EXCEPT !.truncated = FALSE])>>
    ELSE <<ResultToast(result)>>

\* the toasts the click handler shows for the result of a scan, in order:
\* each arm of the match calls show_toast once
ShownToasts(result) == <<ResultToast(result)>>

RECURSIVE ShowAll(_, _)
\* the displayed toasts after the calls of show_toast for each toast of ts
ShowAll(shown, ts) ==
    IF ts = <<>> THEN shown ELSE ShowAll(show_toast(shown, Head(ts)), Tail(ts))

\* a record of a scan without the record of the scan before it
Last(s) == IF s.tag = "Ran" THEN [s EXCEPT !.prev = [tag |-> "None"]] ELSE s

\* RunScan of a task that queried the active thread before the scan before
\* it created one: the steps of the two scans interleave
RunScanInterleaved ==
    /\ tasks > 0
    /\ workspace_alive
    /\ \E created \in BOOLEAN :
         LET stale == IF scan.tag = "Ran" THEN scan.before ELSE thread
             o == insert_secops_message(contents, is_singleton, agent_delegate,
                                        agent_panel, stale, panel_focused,
                                        created)
             shown == ShownToasts(o.result)
         IN  /\ thread' = o.thread
             /\ panel_focused' = o.panel_focused
             /\ toasts' = ShowAll(toasts, shown)
             /\ scan' = [tag |-> "Ran", result |-> o.result, calls |-> o.calls,
                         before |-> stale, after |-> o.thread,
                         focused_before |-> panel_focused,
                         focused_after |-> o.panel_focused,
                         contents |-> contents,
                         is_singleton |-> is_singleton,
                         agent_delegate |-> agent_delegate,
                         agent_panel |-> agent_panel,
                         toasts_before |-> toasts,
                         shown |-> shown,
                         pending |-> tasks,
                         prev |-> Last(scan)]
    /\ tasks' = tasks - 1
    /\ UNCHANGED <<contents, is_singleton, built, agent_delegate, agent_panel,
                   workspace_alive, spawned>>

\* the spawned task while the workspace exists: workspace.update_in runs
\* insert_secops_message and shows the toast of its result
RunScan ==
    /\ tasks > 0
    /\ workspace_alive
    /\ \E created \in BOOLEAN :
         LET o == insert_secops_message(contents, is_singleton, agent_delegate,
                                        agent_panel, thread, panel_focused,
                                        created)
             shown == ShownToasts(o.result)
         IN  /\ thread' = o.thread
             /\ panel_focused' = o.panel_focused
             /\ toasts' = ShowAll(toasts, shown)
             /\ scan' = [tag |-> "Ran", result |-> o.result, calls |-> o.calls,
                         before |-> thread, after |-> o.thread,
                         focused_before |-> panel_focused,
                         focused_after |-> o.panel_focused,
                         contents |-> contents,
                         is_singleton |-> is_singleton,
                         agent_delegate |-> agent_delegate,
                         agent_panel |-> agent_panel,
                         toasts_before |-> toasts,
                         shown |-> shown,
                         pending |-> tasks,
                         prev |-> Last(scan)]
    /\ tasks' = tasks - 1
    /\ UNCHANGED <<contents, is_singleton, built, agent_delegate, agent_panel,
                   workspace_alive, spawned>>

\* RunDropped that reports the missing workspace with a toast
RunDroppedNotifies ==
    /\ tasks > 0
    /\ ~workspace_alive
    /\ tasks' = tasks - 1
    /\ toasts' = show_toast(toasts, ResultToast(AgentUnavailable))
    /\ UNCHANGED <<contents, is_singleton, built, agent_delegate, agent_panel,
                   thread, panel_focused, workspace_alive, spawned, scan>>

\* the spawned task when workspace_weak.upgrade() gives None: Ok(())
RunDropped ==
    /\ tasks > 0
    /\ ~workspace_alive
    /\ tasks' = tasks - 1
    /\ UNCHANGED <<contents, is_singleton, built, agent_delegate, agent_panel,
                   thread, panel_focused, workspace_alive, toasts, spawned,
                   scan>>

\* the last strong handle of the workspace is dropped (the window closes)
DropWorkspace ==
    /\ workspace_alive
    /\ workspace_alive' = FALSE
    /\ UNCHANGED <<contents, is_singleton, built, agent_delegate, agent_panel,
                   thread, panel_focused, toasts, tasks, spawned, scan>>

\* the user edits the buffer while a scan task waits to run
EditBuffer ==
    /\ workspace_alive
    /\ tasks > 0
    /\ \E c \in ScanInputs : c # contents /\ contents' = c
    /\ UNCHANGED <<is_singleton, built, agent_delegate, agent_panel, thread,
                   panel_focused, workspace_alive, toasts, tasks, spawned,
                   scan>>

Next ==
    \/ ClickSecOpsScan
    \/ RunScan
    \/ RunDropped
    \/ DropWorkspace
    \/ EditBuffer

Spec == Init /\ [][Next]_vars

-----------------------------------------------------------------------------
(* Text predicates used by the properties *)

\* t begins with the bytes of p
StartsWith(t, p) ==
    \/ p = <<>>
    \/ /\ Len(t) >= Len(p)
       /\ \A j \in 1..(Len(p) - 1) : t[j] = p[j]
       /\ t[Len(p)].ch = p[Len(p)].ch
       /\ t[Len(p)].n >= p[Len(p)].n

\* t ends with the bytes of p
EndsWith(t, p) ==
    \/ p = <<>>
    \/ LET d == Len(t) - Len(p) IN
       /\ d >= 0
       /\ \A j \in 2..Len(p) : t[d + j] = p[j]
       /\ t[d + 1].ch = p[1].ch
       /\ t[d + 1].n >= p[1].n

\* the number of places at which the bytes of p (two runs or more) occur in t
CountOcc(t, p) ==
    Cardinality({ i \in 1..(Len(t) - Len(p) + 1) :
        /\ t[i].ch = p[1].ch
        /\ t[i].n >= p[1].n
        /\ \A j \in 2..(Len(p) - 1) : t[i + j - 1] = p[j]
        /\ t[i + Len(p) - 1].ch = p[Len(p)].ch
        /\ t[i + Len(p) - 1].n >= p[Len(p)].n })

\* t contains the bytes of p: p is empty, p is one run, or p occurs
Contains(t, p) ==
    \/ p = <<>>
    \/ Len(p) = 1 /\ \E i \in 1..Len(t) : t[i].ch = p[1].ch /\ t[i].n >= p[1].n
    \/ Len(p) >= 2 /\ CountOcc(t, p) >= 1

\* the bytes of a truncated payload that are neither the preamble, the two
\* separators nor the notice
ContentPortionLen(p) ==
    ByteLen(p) - ByteLen(SECOPS_SYSTEM_PROMPT) - 2 * ByteLen(BlankLine)
    - ByteLen(TruncationNotice)

\* the length of the buffer text, and the cases of the builder
N == ByteLen(contents)
Called == built.tag # "None"
Small == N <= SECOPS_WARN_BYTES
Middle == N > SECOPS_WARN_BYTES /\ N <= SECOPS_HARD_LIMIT_BYTES
\* byte W of the content lies inside a character of several bytes
SplitsChar == TakeBytes(contents, SECOPS_WARN_BYTES).cut # <<>>

-----------------------------------------------------------------------------
(* Properties of the payload builder, checked under BuildSpec *)

\* C1: for every content of n <= W bytes the builder succeeds with
\* truncated = false, original_bytes = n and payload = preamble, "\n\n",
\* content verbatim; the payload contains the preamble and the content.
C1_SmallVerbatim ==
    (Called /\ Small) =>
        /\ built.tag = "Ok"
        /\ built.truncated = FALSE
        /\ built.original_bytes = N
        /\ built.payload = SECOPS_SYSTEM_PROMPT \o Cat(BlankLine, contents)
        /\ ByteLen(built.payload) = 144 + 2 + N
        /\ Contains(built.payload, SECOPS_SYSTEM_PROMPT)
        /\ Contains(built.payload, contents)

\* a content of exactly W bytes has been built
C1_Witness ==
    /\ Called
    /\ N = SECOPS_WARN_BYTES
    /\ built.tag = "Ok"
    /\ EndsWith(built.payload, contents)

\* C2: for every content of W < n <= H bytes the builder succeeds, whatever
\* character byte W falls in, with truncated = true, original_bytes = n and
\* payload = preamble, "\n\n", lossy decoding of the first W bytes, "\n\n",
\* notice naming W.
C2_MiddleTruncated ==
    (Called /\ Middle) =>
        /\ built.tag = "Ok"
        /\ built.truncated = TRUE
        /\ built.original_bytes = N
        /\ built.payload =
             Cat(Cat(Cat(Cat(SECOPS_SYSTEM_PROMPT, BlankLine),
                         from_utf8_lossy(TakeBytes(contents, SECOPS_WARN_BYTES))),
                     BlankLine),
                 TruncationNotice)
        /\ SplitsChar =>
             EndsWith(built.payload,
                      Cat(<<Run(REPLACEMENT, 1)>>, Cat(BlankLine, TruncationNotice)))
        \* "204800 bytes]"
        /\ EndsWith(built.payload,
                    Str(<<50, 48, 52, 56, 48, 48, 32, 98, 121, 116, 101, 115,
                          93>>))

\* a content whose byte W lies inside a character has been truncated
C2_Witness ==
    /\ Called
    /\ Middle
    /\ SplitsChar
    /\ built.tag = "Ok"
    /\ built.truncated

\* C3: the builder returns TooLarge{bytes: n} exactly when n > H; for
\* n <= H, n = H included, no error is produced.
C3_TooLargeIffOverHard ==
    Called =>
        /\ built.tag = "Err" <=> N > SECOPS_HARD_LIMIT_BYTES
        /\ built.tag = "Err" => built = TooLarge(N)
        /\ built.tag \in {"Ok", "Err"}

\* a content of exactly H bytes has been accepted
C3_Witness ==
    /\ Called
    /\ N = SECOPS_HARD_LIMIT_BYTES
    /\ built.tag = "Ok"

\* C4: every payload returned begins with the preamble, has truncated true
\* exactly when original_bytes > W, and when truncated ends with the notice
\* that names W.
C4_PayloadShape ==
    (Called /\ built.tag = "Ok") =>
        /\ StartsWith(built.payload, SECOPS_SYSTEM_PROMPT)
        /\ built.truncated <=> built.original_bytes > SECOPS_WARN_BYTES
        /\ built.truncated => EndsWith(built.payload, TruncationNotice)
        \* " to 204800 bytes]"
        /\ built.truncated =>
             EndsWith(built.payload,
                      Str(<<32, 116, 111, 32, 50, 48, 52, 56, 48, 48, 32, 98,
                            121, 116, 101, 115, 93>>))

\* a truncated payload has been returned
C4_Witness ==
    /\ Called
    /\ built.tag = "Ok"
    /\ built.truncated
    /\ built.original_bytes = SECOPS_WARN_BYTES + 1

\* C5: in every truncated payload the content portion is at most W bytes
\* long, also when byte W of the input lies inside a character.
C5_ContentPortionAtMostW ==
    (Called /\ built.tag = "Ok" /\ built.truncated) =>
        ContentPortionLen(built.payload) <= SECOPS_WARN_BYTES

\* C6: for every content of W < n <= H bytes the payload contains the
\* notice exactly once, also when the content contains the notice's text.
C6_NoticeExactlyOnce ==
    (Called /\ Middle /\ built.tag = "Ok") =>
        CountOcc(built.payload, TruncationNotice) = 1

\* C6 (amended): the builder adds the notice exactly once, at the end: the
\* payload contains it once more than the lossy decoded first W bytes of the
\* content do, hence exactly once when those bytes do not contain it.
C6_NoticeAddedOnce ==
    (Called /\ Middle /\ built.tag = "Ok") =>
        /\ CountOcc(built.payload, TruncationNotice) =
             1 + CountOcc(from_utf8_lossy(TakeBytes(contents, SECOPS_WARN_BYTES)),
                          TruncationNotice)
        /\ EndsWith(built.payload, TruncationNotice)

\* a content that holds the notice's text in its first W bytes was truncated
C6_Witness ==
    /\ Called
    /\ Middle
    /\ built.tag = "Ok"
    /\ CountOcc(TakeBytes(contents, SECOPS_WARN_BYTES).whole, TruncationNotice) = 1

\* C7: for every content of W < n <= H bytes the payload is at most
\* W + preamble_len + notice_len + 6 bytes long (4 bytes of separators, 2
\* bytes by which U+FFFD exceeds one cut byte), and shorter than
\* original_bytes + preamble_len + 256.
C7_PayloadLengthBounded ==
    (Called /\ Middle /\ built.tag = "Ok") =>
        /\ ByteLen(built.payload) <=
             SECOPS_WARN_BYTES + ByteLen(SECOPS_SYSTEM_PROMPT)
             + ByteLen(TruncationNotice) + 6
        /\ ByteLen(built.payload) <
             built.original_bytes + ByteLen(SECOPS_SYSTEM_PROMPT) + 256

\* a truncated payload whose length reaches the bound
C7_Witness ==
    /\ Called
    /\ Middle
    /\ built.tag = "Ok"
    /\ ByteLen(built.payload) =
         SECOPS_WARN_BYTES + ByteLen(SECOPS_SYSTEM_PROMPT)
         + ByteLen(TruncationNotice) + 6

-----------------------------------------------------------------------------
(* Properties of the scan, checked under Spec *)

\* a scan has run; scan holds what it saw and what it did
Ran == scan.tag = "Ran"
ScanN == ByteLen(scan.contents)
\* the scan made the call
Made(call) == \E i \in 1..Len(scan.calls) : scan.calls[i] = call

\* C8: the error of a scan is that of the first failing check in the order
\* UnsupportedBuffer, TooLarge, AgentUnavailable, NoAgentThread: a buffer
\* that is not a singleton gives UnsupportedBuffer whatever its size and the
\* agent state; an eligible buffer of n > H bytes gives TooLarge{bytes: n}
\* with or without the agent; AgentUnavailable and NoAgentThread are given
\* only for an eligible buffer of at most H bytes.
C8_FirstFailingCheck ==
    Ran =>
        /\ ~scan.is_singleton => scan.result = UnsupportedBuffer
        /\ (scan.is_singleton /\ ScanN > SECOPS_HARD_LIMIT_BYTES) =>
             scan.result = TooLarge(ScanN)
        /\ (scan.is_singleton /\ ScanN <= SECOPS_HARD_LIMIT_BYTES
            /\ ~scan.agent_delegate) => scan.result = AgentUnavailable
        /\ scan.result = AgentUnavailable =>
             /\ scan.is_singleton
             /\ ScanN <= SECOPS_HARD_LIMIT_BYTES
        /\ scan.result = NoAgentThread =>
             /\ scan.is_singleton
             /\ ScanN <= SECOPS_HARD_LIMIT_BYTES
             /\ scan.agent_delegate

\* an eligible buffer over the hard limit was scanned without a delegate
C8_Witness ==
    /\ Ran
    /\ scan.is_singleton
    /\ ScanN > SECOPS_HARD_LIMIT_BYTES
    /\ ~scan.agent_delegate
    /\ scan.result.tag = "Err"
    /\ scan.result.variant = "TooLarge"

\* C9: a scan of a buffer that is not a singleton fails with
\* UnsupportedBuffer and only asks the buffer whether it is a singleton: no
\* snapshot, no payload, no delegate lookup, no thread query or creation, no
\* insertion, no focus change.
C9_IneligibleTouchesNothing ==
    (Ran /\ ~scan.is_singleton) =>
        /\ scan.result = UnsupportedBuffer
        /\ scan.calls = <<"is_singleton">>
        /\ \A call \in {"snapshot", "build_secops_payload", "try_global",
                        "panel", "active_text_thread_editor",
                        "new_text_thread", "insert", "focus_panel"} :
             ~Made(call)
        /\ scan.after = scan.before
        /\ scan.focused_after = scan.focused_before

\* a buffer that is not a singleton was scanned while a delegate, a panel
\* and an active thread existed
C9_Witness ==
    /\ Ran
    /\ ~scan.is_singleton
    /\ scan.agent_delegate
    /\ scan.agent_panel
    /\ scan.before.active
    /\ scan.result.variant = "UnsupportedBuffer"

\* C10: without a registered delegate, a scan of an eligible buffer of at
\* most H bytes fails with AgentUnavailable and makes no thread query, no
\* thread creation, no panel focus and no insertion.
C10_NoDelegateStopsBeforePanel ==
    (Ran /\ scan.is_singleton /\ ScanN <= SECOPS_HARD_LIMIT_BYTES
     /\ ~scan.agent_delegate) =>
        /\ scan.result = AgentUnavailable
        /\ \A call \in {"active_text_thread_editor", "new_text_thread",
                        "focus_panel", "insert"} : ~Made(call)
        /\ Made("try_global")
        /\ scan.calls[Len(scan.calls)] = "try_global"
        /\ scan.after = scan.before
        /\ scan.focused_after = scan.focused_before

\* an eligible buffer was scanned without a delegate in a workspace that has
\* an AgentPanel
C10_Witness ==
    /\ Ran
    /\ scan.is_singleton
    /\ ~scan.agent_delegate
    /\ scan.agent_panel
    /\ scan.result.variant = "AgentUnavailable"

\* how many times the scan made the call
CountCalls(call) ==
    Cardinality({ i \in 1..Len(scan.calls) : scan.calls[i] = call })
\* the places of the call in the calls of the scan
Places(call) == { i \in 1..Len(scan.calls) : scan.calls[i] = call }
\* the scan got as far as asking for the active thread and found none
SoughtThread ==
    /\ Ran
    /\ scan.is_singleton
    /\ ScanN <= SECOPS_HARD_LIMIT_BYTES
    /\ scan.agent_delegate
    /\ ~scan.before.active

\* C11: in every scan that reaches destination acquisition with the delegate
\* registered and no active thread, thread creation is attempted exactly
\* once, the active thread is then queried again, and the scan fails with
\* NoAgentThread exactly when the second query returns no thread.
C11_CreationExactlyOnce ==
    SoughtThread =>
        /\ CountCalls("new_text_thread") = 1
        /\ CountCalls("active_text_thread_editor") = 2
        /\ scan.result = NoAgentThread <=> ~scan.after.active

\* C11 (amended): in such a scan thread creation is attempted exactly once
\* when the workspace has an AgentPanel, between the two queries of the
\* active thread, and not at all when it has none; the active thread is
\* queried twice, and the scan fails with NoAgentThread exactly when the
\* second query returns no thread, which is always so without an AgentPanel.
C11_CreationOncePerPanel ==
    SoughtThread =>
        /\ CountCalls("new_text_thread") = IF scan.agent_panel THEN 1 ELSE 0
        /\ CountCalls("active_text_thread_editor") = 2
        /\ \A k \in Places("new_text_thread") :
             \E i, j \in Places("active_text_thread_editor") : i < k /\ k < j
        /\ scan.result = NoAgentThread <=> ~scan.after.active
        /\ ~scan.agent_panel => scan.result = NoAgentThread
        /\ scan.result.tag = "Ok" => Made("new_text_thread")

\* a thread was created by a scan that then inserted into it
C11_Witness ==
    /\ SoughtThread
    /\ scan.agent_panel
    /\ CountCalls("new_text_thread") = 1
    /\ scan.after.active
    /\ scan.result.tag = "Ok"

\* the result of the scan is an error, or a payload
Failed == scan.result.tag = "Err"
Succeeded == scan.result.tag = "Ok"
\* the message text of the destination thread before the scan: that of the
\* active thread, or the empty message of the thread the scan creates
Pre == scan.before.text
\* the separator the insertion puts before the payload
Separator == IF Pre # <<>> THEN BlankLine ELSE <<>>

\* C12: insertion is all or nothing and happens at most once per scan: a
\* scan that returns an error leaves the thread as it was and inserts
\* nothing; a scan that returns Ok has inserted the whole payload once.
C12_InsertAllOrNothing ==
    Ran =>
        /\ Failed =>
             /\ scan.after = scan.before
             /\ ~Made("insert")
             /\ ~Made("move_to_end")
        /\ Succeeded =>
             /\ scan.after.active
             /\ EndsWith(scan.after.text, scan.result.payload)
             /\ ByteLen(scan.after.text) =
                  ByteLen(Pre) + ByteLen(Separator)
                  + ByteLen(scan.result.payload)
             /\ CountCalls("insert") = IF Pre # <<>> THEN 2 ELSE 1
        /\ scan.result.tag \in {"Ok", "Err"}

\* a scan failed while the active thread held a message
C12_Witness ==
    /\ Ran
    /\ Failed
    /\ scan.before.active
    /\ scan.before.text # <<>>
    /\ scan.after.text = scan.before.text

\* C13: after a successful scan the thread's text is its text before the
\* scan, then "\n\n" only if that text was not empty, then the payload; the
\* earlier text is kept as a prefix, an empty thread receives the payload
\* alone, and the payload returned is the one inserted.
C13_AppendWithSeparator ==
    (Ran /\ Succeeded) =>
        /\ scan.after.text =
             Cat(Pre, Cat(IF Pre # <<>> THEN BlankLine ELSE <<>>,
                          scan.result.payload))
        /\ StartsWith(scan.after.text, Pre)
        /\ Pre = <<>> => scan.after.text = scan.result.payload
        /\ Pre # <<>> =>
             EndsWith(scan.after.text, Cat(BlankLine, scan.result.payload))
        /\ scan.result.original_bytes = ScanN
        /\ StartsWith(scan.result.payload, SECOPS_SYSTEM_PROMPT)

\* a payload was appended to a thread that held a message
C13_Witness ==
    /\ Ran
    /\ Succeeded
    /\ scan.before.active
    /\ Pre # <<>>
    /\ ByteLen(scan.after.text) > ByteLen(Pre) + ByteLen(scan.result.payload)

\* every focus of the panel comes after an insertion
FocusOnlyAfterInsert ==
    \A k \in Places("focus_panel") : \E i \in Places("insert") : i < k

\* C14: bringing the panel to the foreground is step 6: within a scan it
\* happens only after the payload has been inserted, so a scan that stops at
\* a failure, NoAgentThread in particular, never changes panel focus.
C14_FocusAfterInsertOnly ==
    Ran =>
        /\ FocusOnlyAfterInsert
        /\ Failed =>
             /\ ~Made("focus_panel")
             /\ scan.focused_after = scan.focused_before

\* C14 (amended): the panel is brought to the foreground right after the
\* delegate lookup, before the thread query, when the workspace has an
\* AgentPanel, and again after the insertion.  A scan that fails with
\* UnsupportedBuffer, TooLarge or AgentUnavailable never changes panel
\* focus; a scan that fails with NoAgentThread has focused the panel exactly
\* when the workspace has an AgentPanel; a successful scan ends with the
\* focus call that follows the insertion.
C14_FocusBeforeThreadQuery ==
    Ran =>
        /\ (Failed /\ scan.result.variant # "NoAgentThread") =>
             /\ ~Made("focus_panel")
             /\ scan.focused_after = scan.focused_before
        /\ (Failed /\ scan.result.variant = "NoAgentThread") =>
             /\ Made("focus_panel") <=> scan.agent_panel
             /\ scan.focused_after = (scan.focused_before \/ scan.agent_panel)
             /\ CountCalls("focus_panel") <= 1
        /\ Succeeded =>
             /\ scan.calls[Len(scan.calls)] = "focus_panel"
             /\ scan.calls[Len(scan.calls) - 1] = "insert"
             /\ CountCalls("focus_panel") = IF scan.agent_panel THEN 2 ELSE 1
             /\ scan.focused_after = (scan.focused_before \/ scan.agent_panel)
        /\ \A k \in Places("focus_panel") :
             \E i \in Places("try_global") : i < k

\* a scan failed with NoAgentThread after it had focused the panel
C14_Witness ==
    /\ Ran
    /\ Failed
    /\ scan.result.variant = "NoAgentThread"
    /\ scan.agent_panel
    /\ ~scan.focused_before
    /\ scan.focused_after
    /\ Made("focus_panel")

\* the one toast of the scan
TheToast == scan.shown[1]

\* C15: every scan that runs to an outcome emits exactly one notification,
\* always auto-dismissing: a failure shows the message of its error, a
\* success one of two different messages chosen by payload.truncated, the
\* truncated one naming the soft limit in KB.
C15_OneAutohideToast ==
    Ran =>
        /\ Len(scan.shown) = 1
        /\ TheToast.autohide
        /\ Failed => TheToast.msg = message(scan.result)
        \* "SecOps Scan inserted (truncated to 200 KB)"
        /\ (Succeeded /\ scan.result.truncated) =>
             /\ TheToast.msg =
                  Str(<<83, 101, 99, 79, 112, 115, 32, 83, 99, 97, 110, 32, 105,
                  110, 115, 101, 114, 116, 101, 100, 32, 40, 116, 114, 117, 110, 99,
                  97, 116, 101, 100, 32, 116, 111, 32, 50, 48, 48, 32, 75, 66, 41>>)
             /\ SECOPS_WARN_BYTES = 200 * 1024
        \* "SecOps Scan inserted into chat composer"
        /\ (Succeeded /\ ~scan.result.truncated) =>
             TheToast.msg =
                  Str(<<83, 101, 99, 79, 112, 115, 32, 83, 99, 97, 110, 32, 105,
                  110, 115, 101, 114, 116, 101, 100, 32, 105, 110, 116, 111, 32, 99,
                  104, 97, 116, 32, 99, 111, 109, 112, 111, 115, 101, 114>>)
        /\ Len(toasts) >= 1
        /\ toasts[Len(toasts)] = TheToast

\* a scan that truncated has shown its toast
C15_Witness ==
    /\ Ran
    /\ Succeeded
    /\ scan.result.truncated
    /\ Len(scan.shown) = 1
    /\ TheToast.autohide

\* the errors a scan can return
Errors ==
    {AgentUnavailable, NoAgentThread, UnsupportedBuffer}
    \cup { TooLarge(SECOPS_HARD_LIMIT_BYTES + i) : i \in 1..(MaxSlack + 1) }

\* C16: message maps the error variants to user messages one to one: the
\* four variants give four different sentences, the message depends only on
\* the error value, and the TooLarge message contains the byte count of the
\* error and the hard limit.
C16_MessagePerVariant ==
    (Ran /\ Failed) =>
        /\ scan.result \in Errors
        /\ \A e \in Errors :
             message(e) = TheToast.msg <=> e = scan.result
        \* "Open the Agent panel to use SecOps Scan"
        /\ scan.result = AgentUnavailable =>
             TheToast.msg =
               Str(<<79, 112, 101, 110, 32, 116, 104, 101, 32, 65, 103, 101, 110,
               116, 32, 112, 97, 110, 101, 108, 32, 116, 111, 32, 117, 115, 101,
               32, 83, 101, 99, 79, 112, 115, 32, 83, 99, 97, 110>>)
        \* "Create or select an agent thread to use SecOps Scan"
        /\ scan.result = NoAgentThread =>
             TheToast.msg =
               Str(<<67, 114, 101, 97, 116, 101, 32, 111, 114, 32, 115, 101, 108,
               101, 99, 116, 32, 97, 110, 32, 97, 103, 101, 110, 116, 32, 116,
               104, 114, 101, 97, 100, 32, 116, 111, 32, 117, 115, 101, 32, 83,
               101, 99, 79, 112, 115, 32, 83, 99, 97, 110>>)
        \* "SecOps Scan works only for file-backed text buffers"
        /\ scan.result = UnsupportedBuffer =>
             TheToast.msg =
               Str(<<83, 101, 99, 79, 112, 115, 32, 83, 99, 97, 110, 32, 119,
               111, 114, 107, 115, 32, 111, 110, 108, 121, 32, 102, 111, 114, 32,
               102, 105, 108, 101, 45, 98, 97, 99, 107, 101, 100, 32, 116, 101,
               120, 116, 32, 98, 117, 102, 102, 101, 114, 115>>)
        \* "File too large for SecOps Scan (", " bytes > 1048576 bytes limit)"
        /\ scan.result.variant = "TooLarge" =>
             /\ TheToast.msg =
                  Str(<<70, 105, 108, 101, 32, 116, 111, 111, 32, 108, 97, 114, 103,
                  101, 32, 102, 111, 114, 32, 83, 101, 99, 79, 112, 115, 32, 83, 99,
                  97, 110, 32, 40>>
                      \o Decimal(scan.result.bytes)
                      \o <<32, 98, 121, 116, 101, 115, 32, 62, 32, 49, 48, 52, 56,
                  53, 55, 54, 32, 98, 121, 116, 101, 115, 32, 108, 105, 109, 105,
                  116, 41>>)
             /\ Contains(TheToast.msg, Str(Decimal(ScanN)))
             /\ Contains(TheToast.msg, Str(<<49, 48, 52, 56, 53, 55, 54>>))
             /\ scan.result.bytes = ScanN

\* a scan of a buffer over the hard limit has shown the TooLarge message
C16_Witness ==
    /\ Ran
    /\ Failed
    /\ scan.result.variant = "TooLarge"
    /\ TheToast.msg = message(scan.result)
    /\ Contains(TheToast.msg, Str(Decimal(scan.result.bytes)))

\* two scans have run, one after the other
RanTwice == Ran /\ scan.prev.tag = "Ran"

\* C17: all scan notifications, the success and the error ones, are issued
\* under one and the same identifier, so after any sequence of scans at most
\* one scan notification is displayed: a newer one replaces the older one.
C17_OneToastDisplayed ==
    /\ Len(toasts) <= 1
    /\ \A i \in 1..Len(toasts) : toasts[i].id = toast_id
    /\ Ran =>
         /\ \A i \in 1..Len(scan.shown) : scan.shown[i].id = toast_id
         /\ toasts = <<TheToast>>
    /\ RanTwice => scan.prev.shown[1].id = TheToast.id

\* a failed and a successful scan have run, and one toast is displayed
C17_Witness ==
    /\ RanTwice
    /\ scan.prev.result.tag # scan.result.tag
    /\ scan.prev.shown[1].msg # TheToast.msg
    /\ Len(toasts) = 1

\* C18: when the workspace no longer exists as the spawned task runs, the
\* remaining steps are not executed: no thread is created, nothing is
\* inserted into any thread, no focus changes, no notification is emitted.
C18_DroppedTaskDoesNothing ==
    [][~workspace_alive =>
         /\ thread' = thread
         /\ panel_focused' = panel_focused
         /\ toasts' = toasts
         /\ scan' = scan]_vars

\* every spawned task has run after the workspace was dropped, and none of
\* them has scanned
C18_Witness ==
    /\ ~workspace_alive
    /\ spawned > 0
    /\ tasks = 0
    /\ scan = NotRun
    /\ toasts = <<>>

\* both of two scans returned a payload
BothSucceeded ==
    RanTwice /\ Succeeded /\ scan.prev.result.tag = "Ok"

\* C19: two scans that both succeed against the same thread, in whatever
\* order their tasks and the edits of the buffer interleave, leave the
\* thread with its earlier text, then the payload of the scan that ran
\* first, then a blank line and the payload of the scan that ran second:
\* each payload whole and once, neither inside the other; and each scan
\* returns the payload built from the buffer as it was when that scan ran.
C19_ScansIndependent ==
    BothSucceeded =>
        LET first == scan.prev.result.payload
            second == scan.result.payload
            start == scan.prev.before.text
            sep == IF start # <<>> THEN BlankLine ELSE <<>>
        IN  /\ scan.before = scan.prev.after
            /\ scan.after.text =
                 Cat(start, Cat(sep, Cat(first, Cat(BlankLine, second))))
            /\ ByteLen(scan.after.text) =
                 ByteLen(start) + ByteLen(sep) + ByteLen(first)
                 + ByteLen(BlankLine) + ByteLen(second)
            /\ EndsWith(scan.after.text, second)
            /\ EndsWith(scan.before.text, first)
            /\ scan.result = build_secops_payload(scan.contents)
            /\ scan.prev.result = build_secops_payload(scan.prev.contents)
            /\ thread = scan.after

\* two scan tasks waited at the same time, the buffer was edited between
\* their runs, and both inserted their own payload
C19_Witness ==
    /\ BothSucceeded
    /\ scan.prev.pending = 2
    /\ scan.contents # scan.prev.contents
    /\ scan.result.payload # scan.prev.result.payload
    /\ scan.result.truncated # scan.prev.result.truncated

\* the scan got as far as the first query of the active thread
ReachedQuery ==
    /\ Ran
    /\ scan.is_singleton
    /\ ScanN <= SECOPS_HARD_LIMIT_BYTES
    /\ scan.agent_delegate

\* C21: when the first query of the active thread returns a thread, the scan
\* attempts no thread creation and inserts the payload into that thread,
\* after its text; a scan attempts thread creation only when it reached the
\* first query and that query returned no thread.
C21_ActiveThreadReused ==
    /\ (ReachedQuery /\ scan.before.active) =>
         /\ ~Made("new_text_thread")
         /\ Succeeded
         /\ scan.after.active
         /\ scan.after.text =
              Cat(scan.before.text,
                  Cat(IF scan.before.text # <<>> THEN BlankLine ELSE <<>>,
                      scan.result.payload))
         /\ StartsWith(scan.after.text, scan.before.text)
    /\ (Ran /\ Made("new_text_thread")) =>
         /\ ReachedQuery
         /\ ~scan.before.active
         /\ \E k \in Places("new_text_thread") :
              \E i \in Places("active_text_thread_editor") : i < k

\* a scan inserted its payload after the message of the active thread
C21_Witness ==
    /\ ReachedQuery
    /\ scan.before.active
    /\ scan.before.text # <<>>
    /\ Succeeded
    /\ CountCalls("new_text_thread") = 0
    /\ scan.after.text # scan.before.text

\* the calls of new_text_thread in the scan before the last one
PrevCreations ==
    Cardinality({ i \in 1..Len(scan.prev.calls) :
                    scan.prev.calls[i] = "new_text_thread" })

\* C22: a scan runs as one step, so the steps of two scans never
\* interleave: the second scan starts from the thread the first one left;
\* when the first scan found no active thread and created one, the second
\* scan finds it active and attempts no creation, so both scans together
\* create at most one thread.
C22_ScansDoNotInterleave ==
    RanTwice =>
        /\ scan.before = scan.prev.after
        /\ scan.focused_before = scan.prev.focused_after
        /\ (~scan.prev.before.active /\ scan.prev.after.active) =>
             /\ PrevCreations = 1
             /\ scan.before.active
             /\ CountCalls("new_text_thread") = 0
             /\ PrevCreations + CountCalls("new_text_thread") <= 1
             /\ ReachedQuery => Succeeded

\* two scans waited at the same time while no thread was active; the first
\* created the thread and the second inserted into it
C22_Witness ==
    /\ RanTwice
    /\ scan.prev.pending = 2
    /\ ~scan.prev.before.active
    /\ scan.prev.after.active
    /\ PrevCreations = 1
    /\ Succeeded
    /\ scan.before.active

\* the delegate is registered, the workspace has no AgentPanel and no thread
\* is active when the scan asks for one
NoPanelNoThread ==
    /\ ReachedQuery
    /\ ~scan.agent_panel
    /\ ~scan.before.active

\* C23: thread creation is guarded by the presence of the AgentPanel: with
\* the delegate registered, no AgentPanel and no active thread, the scan
\* attempts no thread creation and no focus change and fails with
\* NoAgentThread.
C23_CreationGuardedByPanel ==
    NoPanelNoThread =>
        /\ scan.result = NoAgentThread
        /\ ~Made("new_text_thread")
        /\ ~Made("focus_panel")
        /\ scan.focused_after = scan.focused_before
        /\ scan.after = scan.before
        /\ CountCalls("panel") = 2
        /\ CountCalls("active_text_thread_editor") = 2
        /\ ~Made("insert")

\* a scan without an AgentPanel failed with NoAgentThread after it looked
\* for the panel twice
C23_Witness ==
    /\ NoPanelNoThread
    /\ scan.result = NoAgentThread
    /\ CountCalls("panel") = 2
    /\ ~scan.focused_after
    /\ scan.shown[1].msg = message(NoAgentThread)

=============================================================================
